---- MODULE Spec2Model ----
(***************************************************************************)
(* Differential evolution optimizer of src/src/de.py (DiffEvol and         *)
(* DiffEvolResult), modelled statement by statement.                       *)
(*                                                                         *)
(* Numbers.  Parameter values are integers; random() returns one of the    *)
(* RandDen levels 0/RandDen .. (RandDen-1)/RandDen, kept as the numerator, *)
(* and the crossover probability C is a numerator over RandDen as well.    *)
(* Indices are 0-based as in the source.                                   *)
(*                                                                         *)
(* Randomness.  numpy's generator is process-wide (np.random.seed,         *)
(* randint, random all act on one hidden state).  Spec leaves the values   *)
(* drawn open (any value the call can return), which covers every seed.    *)
(* SeedSpec makes the stream a function of the one process-wide state rng, *)
(* so that what a seed reproduces can be stated.                           *)
(***************************************************************************)
EXTENDS Integers, Sequences, FiniteSets, TLC

VARIABLES
    rng,          \* the process-wide generator state of numpy.random
    self,         \* per engine: the attributes __init__ stores
    population,   \* per engine: result.population (alias result.pop)
    fitness,      \* per engine: result.fitness (alias result.fit)
    minidx,       \* per engine: result.minidx
    pc,           \* per engine: position in __init__/__call__
    i,            \* per engine: loop variable i of __call__
    j,            \* per engine: loop variable j of __call__
    t,            \* per engine: donor index array t of __call__
    v,            \* per engine: mutant vector v
    u,            \* per engine: trial vector u
    ri,           \* per engine: forced-crossing index ri
    ufit,         \* per engine: objective value of u
    stdout,       \* per engine: number of progress lines written
    raised,       \* per engine: exception that ended __call__
    ans,          \* per engine: what the last result query returned
    lowest,       \* per engine: lowest value minfun returned in this call
    genfit        \* per engine: fitness vector at the head of the generation

vars == <<rng, self, population, fitness, minidx, pc, i, j, t, v, u, ri, ufit,
          stdout, raised, ans, lowest, genfit>>

\* ------------------------------------------------------------ bounds
\* n_gen ranges over 0..MaxGen, seeds over 0..MaxSeed.
MaxGen == 1
MaxSeed == 3

\* random() returns k/RandDen for k in 0..RandDen-1 (the unit interval [0,1)).
RandDen == 2
\* The generator state space of SeedSpec (numpy's Mersenne Twister, scaled down).
RngMod == 127

Engines == {1, 2}
None == -1
PopSizes == {3, 4}
Objectives == {"sphere"}
\* bounds as an [npar,2] array: parameter 0 in [-1, -1+RandDen), parameter 1
\* in [0, RandDen).
BoundsSet == { [k \in 0..1 |-> <<k - 1, k - 1 + RandDen>>] }
\* F = 1 keeps every vector on the integer grid; C is 0 or 1 (RandDen/RandDen).
FSet == {1}
CSet == {0, RandDen}

\* The arguments of DiffEvol(fun, bounds, npop, ngen, F, C, seed, verbose).
Args == [fun : Objectives, bounds : BoundsSet, npop : PopSizes, ngen : 0..MaxGen,
         F : FSet, C : CSet, seed : 0..MaxSeed, verbose : BOOLEAN]

\* ------------------------------------------------------------ pure parts
Dom(x) == DOMAIN x

RECURSIVE SumSq(_, _)
SumSq(x, n) == IF n = 0 THEN 0 ELSE x[n - 1] * x[n - 1] + SumSq(x, n - 1)

\* The objective function handed to the engine, applied to a parameter vector.
Minfun(f, x) == CASE f = "sphere" -> SumSq(x, Cardinality(Dom(x)))

\* np.zeros(n)
Zeros(n) == [k \in 0..(n - 1) |-> 0]

\* bl + random([npop, npar]) * bw, with m the matrix of levels random returned.
Sample(a, m) ==
    [r \in 0..(a.npop - 1) |->
        [c \in Dom(a.bounds) |->
            a.bounds[c][1] + (m[r][c] * (a.bounds[c][2] - a.bounds[c][1])) \div RandDen]]

\* r.pop[t[0],:] + self.F * (r.pop[t[1],:] - r.pop[t[2],:])
Mutant(pop, tt, f) ==
    [c \in Dom(pop[0]) |-> pop[tt[0]][c] + f * (pop[tt[1]][c] - pop[tt[2]][c])]

\* random(self.n_parm) <= self.C
Mask(r, c) == [k \in Dom(r) |-> r[k] <= c]

\* np.where(crossover, v, r.pop[i,:])
Where(mask, vv, row) == [k \in Dom(vv) |-> IF mask[k] THEN vv[k] ELSE row[k]]

\* The lowest of the values seen so far (the set S holds it, or is empty) and f.
Seen(S, f) == IF \E x \in S : x <= f THEN S ELSE {f}

\* A variant of Better that also accepts a trial of equal value.
BetterOrEqual(uf, f) == uf <= f

\* ufit < r.fitness[i]
Better(uf, f) == uf < f

\* A variant of ArgMin that picks the first index holding the maximum.
ArgMax(f) ==
    CHOOSE k \in Dom(f) : (\A m \in Dom(f) : f[k] >= f[m])
                             /\ (\A m \in Dom(f) : m < k => f[m] < f[k])

\* np.argmin: the first index holding the minimum
ArgMin(f) ==
    CHOOSE k \in Dom(f) : (\A m \in Dom(f) : f[k] <= f[m])
                             /\ (\A m \in Dom(f) : m < k => f[m] > f[k])

\* numpy indexing of an array by self.minidx: an integer selects the entry, None
\* is numpy.newaxis and yields the whole array under one more leading axis.
Index(op, arr, idx) ==
    IF idx = None THEN [op |-> op, kind |-> "newaxis", val |-> <<arr>>]
                  ELSE [op |-> op, kind |-> "entry", val |-> <<arr[idx]>>]

\* ------------------------------------------------------------ generator
\* A multiplicative congruential generator on 1..RngMod-1 stands for numpy's.
\* np.random.seed(s): the state is a function of the seed alone.
Seeded(s) == 1 + ((7 * s) % (RngMod - 1))
\* One draw advances the state.
Advance(s) == (3 * s) % RngMod
RECURSIVE AdvanceBy(_, _)
AdvanceBy(s, n) == IF n = 0 THEN s ELSE AdvanceBy(Advance(s), n - 1)
\* randint(n) in state s
RandInt(s, n) == s % n
\* random() in state s, as a level
Random(s) == (s \div 4) % RandDen
\* random(n) in state s: n consecutive draws
RandomVec(s, n) == [k \in 0..(n - 1) |-> Random(AdvanceBy(s, k))]
\* random([npop, npar]) in state s: row-major consecutive draws
RandomMat(s, npop, npar) ==
    [r \in 0..(npop - 1) |-> [c \in 0..(npar - 1) |-> Random(AdvanceBy(s, r * npar + c))]]

\* ------------------------------------------------------------ state
NoSelf == [minfun |-> "none", bounds |-> <<>>, n_gen |-> 0, n_pop |-> 0, n_parm |-> 0,
           seed |-> 0, F |-> 0, C |-> 0, verbose |-> FALSE]
NoAns == [op |-> "none", kind |-> "none", val |-> <<>>]
Idle == {"unconstructed", "constructed", "completed", "raised"}

\* __call__ is synchronous: while one engine runs, nothing else in the process does.
Quiet(e) == \A o \in Engines \ {e} : pc[o] \in Idle

Init ==
    /\ rng = Seeded(0)
    /\ self = [e \in Engines |-> NoSelf]
    /\ population = [e \in Engines |-> <<>>]
    /\ fitness = [e \in Engines |-> <<>>]
    /\ minidx = [e \in Engines |-> None]
    /\ pc = [e \in Engines |-> "unconstructed"]
    /\ i = [e \in Engines |-> 0]
    /\ j = [e \in Engines |-> 0]
    /\ t = [e \in Engines |-> <<>>]
    /\ v = [e \in Engines |-> <<>>]
    /\ u = [e \in Engines |-> <<>>]
    /\ ri = [e \in Engines |-> None]
    /\ ufit = [e \in Engines |-> None]
    /\ stdout = [e \in Engines |-> 0]
    /\ raised = [e \in Engines |-> "none"]
    /\ ans = [e \in Engines |-> NoAns]
    /\ lowest = [e \in Engines |-> {}]
    /\ genfit = [e \in Engines |-> <<>>]

\* ------------------------------------------------------------ operations
\* Each operation takes the engine e and the values the generator returned to it;
\* the specifications below say where those values come from.

Put(f, e, x) == [f EXCEPT ![e] = x]

\* DiffEvol.__init__ with arguments a; m is what random([npop, npar]) returned.
\* No argument is validated.
Construct(e, a, m) ==
    /\ pc[e] = "unconstructed"
    /\ Quiet(e)
    /\ self' = Put(self, e, [minfun |-> a.fun, bounds |-> a.bounds, n_gen |-> a.ngen,
                             n_pop |-> a.npop, n_parm |-> Cardinality(Dom(a.bounds)),
                             seed |-> a.seed, F |-> a.F, C |-> a.C,
                             verbose |-> a.verbose])
    /\ population' = Put(population, e, Sample(a, m))
    /\ fitness' = Put(fitness, e, Zeros(a.npop))
    /\ minidx' = Put(minidx, e, None)
    /\ pc' = Put(pc, e, "constructed")
    /\ UNCHANGED <<i, j, t, v, u, ri, ufit, stdout, raised, ans, lowest, genfit>>

\* __call__, lines 61-62.  One invocation per engine is modelled.
Call(e) ==
    /\ pc[e] = "constructed"
    /\ Quiet(e)
    /\ t' = Put(t, e, Zeros(3))
    /\ i' = Put(i, e, 0)
    /\ pc' = Put(pc, e, "eval")
    /\ ans' = Put(ans, e, NoAns)
    /\ UNCHANGED <<rng, self, population, fitness, minidx, j, v, u, ri, ufit, stdout,
                   raised, lowest, genfit>>

\* lines 64-65: r.fit[i] = self.minfun(r.pop[i,:]), one row per step
EvalInit(e) ==
    /\ pc[e] = "eval"
    /\ LET f == Minfun(self[e].minfun, population[e][i[e]]) IN
         /\ fitness' = Put(fitness, e, [fitness[e] EXCEPT ![i[e]] = f])
         /\ lowest' = Put(lowest, e, Seen(lowest[e], f))
    /\ IF i[e] + 1 < self[e].n_pop
          THEN /\ i' = Put(i, e, i[e] + 1)
               /\ UNCHANGED <<pc, j>>
          ELSE /\ pc' = Put(pc, e, "gen")
               /\ j' = Put(j, e, 0)
               /\ UNCHANGED i
    /\ UNCHANGED <<rng, self, population, minidx, t, v, u, ri, ufit, stdout, raised, ans,
                   genfit>>

\* line 67: for j in xrange(self.n_gen)
Generation(e) ==
    /\ pc[e] = "gen"
    /\ j[e] < self[e].n_gen
    /\ pc' = Put(pc, e, "target")
    /\ i' = Put(i, e, 0)
    /\ genfit' = Put(genfit, e, fitness[e])
    /\ UNCHANGED <<rng, self, population, fitness, minidx, j, t, v, u, ri, ufit, stdout,
                   raised, ans, lowest>>

\* lines 68-69: the head of the sweep over i, t[:] = i.  v, u, ri and ufit of the
\* previous target are dead here (each is assigned before it is read again) and
\* are dropped.
Target(e) ==
    /\ pc[e] = "target"
    /\ t' = Put(t, e, [k \in 0..2 |-> i[e]])
    /\ v' = Put(v, e, <<>>)
    /\ u' = Put(u, e, <<>>)
    /\ ri' = Put(ri, e, None)
    /\ ufit' = Put(ufit, e, None)
    /\ pc' = Put(pc, e, "t0")
    /\ UNCHANGED <<rng, self, population, fitness, minidx, i, j, stdout, raised, ans,
                   lowest, genfit>>

\* line 70: while t[0] == i
LoopT0(e) == t[e][0] = i[e]
\* line 72: while t[1] == i or t[1] == t[0]
LoopT1(e) == t[e][1] = i[e] \/ t[e][1] = t[e][0]
\* A variant of LoopT2 that forgets to compare t[2] with t[0].
LoopT2NoFirst(e) == t[e][2] = i[e] \/ t[e][2] = t[e][1]
\* line 74: while t[2] == i or t[2] == t[0] or t[2] == t[1]
LoopT2(e) == t[e][2] = i[e] \/ t[e][2] = t[e][0] \/ t[e][2] = t[e][1]

\* the body of a donor loop: t[k] = randint(self.n_pop), d the value returned
Draw(e, k, d) ==
    /\ t' = Put(t, e, [t[e] EXCEPT ![k] = d])
    /\ UNCHANGED <<self, population, fitness, minidx, pc, i, j, v, u, ri, ufit, stdout,
                   raised, ans, lowest, genfit>>

\* a donor loop whose test is false: on to the next statement
Leave(e, next) ==
    /\ pc' = Put(pc, e, next)
    /\ UNCHANGED <<rng, self, population, fitness, minidx, i, j, t, v, u, ri, ufit, stdout,
                   raised, ans, lowest, genfit>>

\* lines 70-71
DrawT0(e, d) == pc[e] = "t0" /\ LoopT0(e) /\ Draw(e, 0, d)
PassT0(e) == pc[e] = "t0" /\ ~LoopT0(e) /\ Leave(e, "t1")
\* lines 72-73
DrawT1(e, d) == pc[e] = "t1" /\ LoopT1(e) /\ Draw(e, 1, d)
PassT1(e) == pc[e] = "t1" /\ ~LoopT1(e) /\ Leave(e, "t2")
\* lines 74-75
DrawT2(e, d) == pc[e] = "t2" /\ LoopT2(e) /\ Draw(e, 2, d)
PassT2(e) == pc[e] = "t2" /\ ~LoopT2(e) /\ Leave(e, "mutate")

\* line 77
Mutate(e) ==
    /\ pc[e] = "mutate"
    /\ v' = Put(v, e, Mutant(population[e], t[e], self[e].F))
    /\ pc' = Put(pc, e, "crossover")
    /\ UNCHANGED <<rng, self, population, fitness, minidx, i, j, t, u, ri, ufit, stdout,
                   raised, ans, lowest, genfit>>

\* lines 80-81; r is what random(self.n_parm) returned
Crossover(e, r) ==
    /\ pc[e] = "crossover"
    /\ u' = Put(u, e, Where(Mask(r, self[e].C), v[e], population[e][i[e]]))
    /\ pc' = Put(pc, e, "forced")
    /\ UNCHANGED <<self, population, fitness, minidx, i, j, t, v, ri, ufit, stdout,
                   raised, ans, lowest, genfit>>

\* A variant of Forced that draws ri and leaves u as the crossover made it.
ForcedNoCopy(e, d) ==
    /\ pc[e] = "forced"
    /\ ri' = Put(ri, e, d)
    /\ pc' = Put(pc, e, "evaluate")
    /\ UNCHANGED <<self, population, fitness, minidx, i, j, t, v, u, ufit, stdout,
                   raised, ans, lowest, genfit>>

\* lines 84-85; d is what randint(self.n_parm) returned
Forced(e, d) ==
    /\ pc[e] = "forced"
    /\ ri' = Put(ri, e, d)
    /\ u' = Put(u, e, [u[e] EXCEPT ![d] = v[e][d]])
    /\ pc' = Put(pc, e, "evaluate")
    /\ UNCHANGED <<self, population, fitness, minidx, i, j, t, v, ufit, stdout,
                   raised, ans, lowest, genfit>>

\* line 87
Evaluate(e) ==
    /\ pc[e] = "evaluate"
    /\ LET f == Minfun(self[e].minfun, u[e]) IN
         /\ ufit' = Put(ufit, e, f)
         /\ lowest' = Put(lowest, e, Seen(lowest[e], f))
    /\ pc' = Put(pc, e, "select")
    /\ UNCHANGED <<rng, self, population, fitness, minidx, i, j, t, v, u, ri, stdout,
                   raised, ans, genfit>>

\* A variant of Select that replaces the row and leaves its fitness behind.
SelectStale(e) ==
    /\ pc[e] = "select"
    /\ IF Better(ufit[e], fitness[e][i[e]])
          THEN population' = Put(population, e, [population[e] EXCEPT ![i[e]] = u[e]])
          ELSE UNCHANGED population
    /\ IF i[e] + 1 < self[e].n_pop
          THEN /\ i' = Put(i, e, i[e] + 1)
               /\ pc' = Put(pc, e, "target")
          ELSE /\ pc' = Put(pc, e, "report")
               /\ UNCHANGED i
    /\ UNCHANGED <<rng, self, fitness, minidx, j, t, v, u, ri, ufit, stdout, raised,
                   ans, lowest, genfit>>

\* lines 89-91, then on to the next i (line 68) or past the sweep (line 93)
Select(e) ==
    /\ pc[e] = "select"
    /\ IF Better(ufit[e], fitness[e][i[e]])
          THEN /\ population' = Put(population, e, [population[e] EXCEPT ![i[e]] = u[e]])
               /\ fitness' = Put(fitness, e, [fitness[e] EXCEPT ![i[e]] = ufit[e]])
          ELSE UNCHANGED <<population, fitness>>
    /\ IF i[e] + 1 < self[e].n_pop
          THEN /\ i' = Put(i, e, i[e] + 1)
               /\ pc' = Put(pc, e, "target")
          ELSE /\ pc' = Put(pc, e, "report")
               /\ UNCHANGED i
    /\ UNCHANGED <<rng, self, minidx, j, t, v, u, ri, ufit, stdout, raised, ans, lowest,
                   genfit>>

\* lines 93-94 with self.verbose set: the arguments of the format are evaluated
\* first, and self.rank is an attribute no code of the class ever sets, so the
\* statement raises AttributeError before anything is written; __call__ ends there.
Report(e) ==
    /\ pc[e] = "report"
    /\ self[e].verbose
    /\ raised' = Put(raised, e, "AttributeError")
    /\ pc' = Put(pc, e, "raised")
    /\ UNCHANGED <<rng, self, population, fitness, minidx, i, j, t, v, u, ri, ufit, stdout,
                   ans, lowest, genfit>>

\* line 93 with self.verbose unset: on to the next j (line 67)
NextGen(e) ==
    /\ pc[e] = "report"
    /\ ~self[e].verbose
    /\ j' = Put(j, e, j[e] + 1)
    /\ pc' = Put(pc, e, "gen")
    /\ UNCHANGED <<rng, self, population, fitness, minidx, i, t, v, u, ri, ufit, stdout,
                   raised, ans, lowest, genfit>>

\* lines 96-97
Finish(e) ==
    /\ pc[e] = "gen"
    /\ ~(j[e] < self[e].n_gen)
    /\ minidx' = Put(minidx, e, ArgMin(fitness[e]))
    /\ pc' = Put(pc, e, "completed")
    /\ UNCHANGED <<rng, self, population, fitness, i, j, t, v, u, ri, ufit, stdout, raised,
                   ans, lowest, genfit>>

\* DiffEvolResult.get_fitness, on the engine's result between invocations
GetFitness(e) ==
    /\ pc[e] \in Idle \ {"unconstructed"}
    /\ ans' = Put(ans, e, Index("get_fitness", fitness[e], minidx[e]))
    /\ UNCHANGED <<rng, self, population, fitness, minidx, pc, i, j, t, v, u, ri, ufit,
                   stdout, raised, lowest, genfit>>

\* DiffEvolResult.get_best_fit
GetBestFit(e) ==
    /\ pc[e] \in Idle \ {"unconstructed"}
    /\ ans' = Put(ans, e, Index("get_best_fit", population[e], minidx[e]))
    /\ UNCHANGED <<rng, self, population, fitness, minidx, pc, i, j, t, v, u, ri, ufit,
                   stdout, raised, lowest, genfit>>

\* ------------------------------------------------------------ specifications
\* Spec: one engine, constructed with the default seed; every value a draw can
\* return is possible.
Levels == 0..(RandDen - 1)
SpecArgs == {a \in Args : a.seed = 0}

SConstruct ==
    /\ pc[1] = "unconstructed"
    /\ \E a \in SpecArgs :
        \E m \in [0..(a.npop - 1) -> [Dom(a.bounds) -> Levels]] : Construct(1, a, m)
    /\ UNCHANGED rng
SDrawT0 ==
    /\ pc[1] = "t0"
    /\ \E d \in 0..(self[1].n_pop - 1) : DrawT0(1, d)
    /\ UNCHANGED rng
SDrawT1 ==
    /\ pc[1] = "t1"
    /\ \E d \in 0..(self[1].n_pop - 1) : DrawT1(1, d)
    /\ UNCHANGED rng
SDrawT2 ==
    /\ pc[1] = "t2"
    /\ \E d \in 0..(self[1].n_pop - 1) : DrawT2(1, d)
    /\ UNCHANGED rng
SCrossover ==
    /\ pc[1] = "crossover"
    /\ \E r \in [0..(self[1].n_parm - 1) -> Levels] : Crossover(1, r)
    /\ UNCHANGED rng
SForced ==
    /\ pc[1] = "forced"
    /\ \E d \in 0..(self[1].n_parm - 1) : Forced(1, d)
    /\ UNCHANGED rng

Next ==
    \/ SConstruct
    \/ Call(1)
    \/ EvalInit(1)
    \/ Generation(1)
    \/ Target(1)
    \/ SDrawT0
    \/ PassT0(1)
    \/ SDrawT1
    \/ PassT1(1)
    \/ SDrawT2
    \/ PassT2(1)
    \/ Mutate(1)
    \/ SCrossover
    \/ SForced
    \/ Evaluate(1)
    \/ Select(1)
    \/ Report(1)
    \/ NextGen(1)
    \/ Finish(1)
    \/ GetFitness(1)
    \/ GetBestFit(1)

Spec == Init /\ [][Next]_vars

\* FairSpec: Spec with the scheduling of a running interpreter (a statement that
\* can run does) and fair draws: a donor loop whose redraw can return an index
\* that ends the loop is, in the end, given one.
Fair ==
    /\ WF_vars(Next)
    /\ SF_vars(SDrawT0 /\ ~LoopT0(1)')
    /\ SF_vars(SDrawT1 /\ ~LoopT1(1)')
    /\ SF_vars(SDrawT2 /\ ~LoopT2(1)')

FairSpec == Spec /\ Fair

\* SeedSpec: two engines in one process, every draw taken from the process-wide
\* generator in its state rng, which __init__ reseeds.  Both engines are
\* constructed with the same arguments.
SameArgs(e, a) ==
    \A o \in Engines \ {e} :
        pc[o] # "unconstructed" =>
            /\ self[o].minfun = a.fun /\ self[o].bounds = a.bounds
            /\ self[o].n_gen = a.ngen /\ self[o].n_pop = a.npop
            /\ self[o].seed = a.seed /\ self[o].F = a.F /\ self[o].C = a.C
            /\ self[o].verbose = a.verbose

\* lines 54-55: np.random.seed(self.seed), then the result draws its population
QConstruct(e) ==
    /\ pc[e] = "unconstructed"
    /\ \E a \in Args :
        /\ SameArgs(e, a)
        /\ LET npar == Cardinality(Dom(a.bounds)) IN
             /\ Construct(e, a, RandomMat(Seeded(a.seed), a.npop, npar))
             /\ rng' = AdvanceBy(Seeded(a.seed), a.npop * npar)
QDrawT0(e) == DrawT0(e, RandInt(rng, self[e].n_pop)) /\ rng' = Advance(rng)
QDrawT1(e) == DrawT1(e, RandInt(rng, self[e].n_pop)) /\ rng' = Advance(rng)
QDrawT2(e) == DrawT2(e, RandInt(rng, self[e].n_pop)) /\ rng' = Advance(rng)
QCrossover(e) ==
    /\ pc[e] = "crossover"
    /\ Crossover(e, RandomVec(rng, self[e].n_parm))
    /\ rng' = AdvanceBy(rng, self[e].n_parm)
QForced(e) ==
    /\ pc[e] = "forced"
    /\ Forced(e, RandInt(rng, self[e].n_parm))
    /\ rng' = Advance(rng)

SeedNext ==
    \E e \in Engines :
        \/ QConstruct(e)
        \/ Call(e)
        \/ EvalInit(e)
        \/ Generation(e)
        \/ Target(e)
        \/ QDrawT0(e)
        \/ PassT0(e)
        \/ QDrawT1(e)
        \/ PassT1(e)
        \/ QDrawT2(e)
        \/ PassT2(e)
        \/ Mutate(e)
        \/ QCrossover(e)
        \/ QForced(e)
        \/ Evaluate(e)
        \/ Select(e)
        \/ Report(e)
        \/ NextGen(e)
        \/ Finish(e)
        \/ GetFitness(e)
        \/ GetBestFit(e)

SeedSpec == Init /\ [][SeedNext]_vars

\* ------------------------------------------------------------ properties
Built(e) == pc[e] # "unconstructed"
Rows(e) == 0..(self[e].n_pop - 1)
Objective(e, x) == Minfun(self[e].minfun, x)
\* The positions of __call__ between the donor loops and the selection.
Trial == {"mutate", "crossover", "forced", "evaluate", "select"}

\* C1: two runs of engines constructed with the same seed, bounds, F, C, n_pop,
\* n_gen and objective end with the same population and the same fitness
\* vector, whatever the process did between a construction and its run.
C1_Determinism ==
    (pc[1] = "completed" /\ pc[2] = "completed" /\ self[1] = self[2])
        => (population[1] = population[2] /\ fitness[1] = fitness[2])

\* C2 as stated: from construction onward fitness[i] = objective(population[i])
\* for every row i.
C2_SyncedFromConstruction ==
    \A e \in Engines :
        Built(e) => \A k \in Rows(e) : fitness[e][k] = Objective(e, population[e][k])

\* Row k of engine e has been through the initial evaluation pass (lines 64-65).
Evaluated(e, k) ==
    /\ pc[e] \notin {"unconstructed", "constructed"}
    /\ pc[e] = "eval" => k < i[e]

C2_SyncedRows ==
    \A e \in Engines : \A k \in Rows(e) :
        Evaluated(e, k) => fitness[e][k] = Objective(e, population[e][k])

C2_SelectStep ==
    \A e \in Engines : \A k \in Rows(e) :
        pc[e] = "select" =>
            ((population'[e][k] # population[e][k]) <=> (fitness'[e][k] # fitness[e][k]))

\* C2 amended: fitness[i] = objective(population[i]) for every row i the initial
\* evaluation pass has reached, in every later state of the run; and a selection
\* step changes row i and fitness[i] together or changes neither.
C2_Synced == []C2_SyncedRows /\ [][C2_SelectStep]_vars

\* C2 witness: the run is over, and its last selection step has replaced a row.
C2_Witness ==
    /\ pc[1] = "completed"
    /\ ufit[1] # None
    /\ population[1][i[1]] = u[1]
    /\ fitness[1][i[1]] = ufit[1]
    /\ fitness[1][i[1]] < genfit[1][i[1]]

C3_NeverWorse ==
    \A e \in Engines :
        (pc[e] \in {"gen", "report", "completed", "raised"} /\ genfit[e] # <<>>)
            => \A k \in Rows(e) : fitness[e][k] <= genfit[e][k]

C3_ReplaceOnlyBetter ==
    \A e \in Engines : \A k \in Rows(e) :
        (pc[e] \in Trial \cup {"target", "t0", "t1", "t2", "report", "gen"}
            /\ (population'[e][k] # population[e][k] \/ fitness'[e][k] # fitness[e][k]))
        => /\ pc[e] = "select" /\ k = i[e]
           /\ ufit[e] < fitness[e][k]
           /\ population'[e][k] = u[e] /\ fitness'[e][k] = ufit[e]

C4_DistinctDonors ==
    \A e \in Engines :
        (self[e].n_pop >= 4 /\ pc[e] \in Trial) =>
            /\ Cardinality({t[e][0], t[e][1], t[e][2], i[e]}) = 4
            /\ {t[e][0], t[e][1], t[e][2], i[e]} \subseteq Rows(e)

\* C4 witness: a mutation step of the last target with donors 2, 0, 1.
C4_Witness ==
    /\ pc[1] = "mutate" /\ self[1].n_pop = 4 /\ i[1] = 3
    /\ t[1][0] = 2 /\ t[1][1] = 0 /\ t[1][2] = 1

\* C5: no engine exists that was constructed with n_pop < 4 (the construction
\* fails instead).
C5_MinPopRejected == \A e \in Engines : Built(e) => self[e].n_pop >= 4

\* C6: while minidx is unset, a result query returns nothing: it fails with
\* NotEvaluatedError.
C6_NotEvaluated ==
    \A e \in Engines :
        (minidx[e] = None /\ ans[e].op # "none") => ans[e].kind = "NotEvaluatedError"

\* C7: a verbose run is never ended by its reporting, and has written one
\* progress line per finished generation.
C7_VerboseObservational ==
    \A e \in Engines :
        (Built(e) /\ self[e].verbose) =>
            /\ raised[e] = "none"
            /\ pc[e] \in {"gen", "completed"} => stdout[e] = j[e]

\* C8: in every trial vector u handed to the objective, u[ri] = v[ri] at the
\* forced index ri, and every component of u is that of v or that of pop[i].
C8_ForcedCrossing ==
    \A e \in Engines :
        pc[e] \in {"evaluate", "select"} =>
            /\ ri[e] \in Dom(v[e])
            /\ u[e][ri[e]] = v[e][ri[e]]
            /\ \A k \in Dom(v[e]) : u[e][k] = v[e][k] \/ u[e][k] = population[e][i[e]][k]

\* C8 witness: with C = 0 a trial about to be evaluated takes the forced
\* component from v, where v differs from the target, and keeps another
\* component of the target, where v differs too.
C8_Witness ==
    /\ pc[1] = "evaluate" /\ self[1].C = 0
    /\ v[1][ri[1]] # population[1][i[1]][ri[1]]
    /\ \E k \in Dom(v[1]) :
          k # ri[1] /\ u[1][k] = population[1][i[1]][k] /\ u[1][k] # v[1][k]

\* C9: an invocation of an engine with n_pop >= 4 ends nowhere but in the
\* completed state (__call__ has ended when pc is completed or raised).
C9_ReachesCompleted ==
    \A e \in Engines : (Built(e) /\ self[e].n_pop >= 4) => pc[e] # "raised"

LoopsExit ==
    /\ (self[1].n_pop >= 4 /\ pc[1] = "t0") ~> (pc[1] = "t1")
    /\ (self[1].n_pop >= 4 /\ pc[1] = "t1") ~> (pc[1] = "t2")
    /\ (self[1].n_pop >= 4 /\ pc[1] = "t2") ~> (pc[1] = "mutate")
    /\ (self[1].n_pop >= 4 /\ pc[1] = "eval") ~> (pc[1] \in {"completed", "raised"})

====
